---- MODULE Spec2Model ----
(***************************************************************************)
(* news-diet: the feed ingestion pipeline (app/services/feeder.py) run by  *)
(* the scheduled job and by the manual refresh endpoint, over the MongoDB  *)
(* collections `articles` and `feeds`.                                     *)
(*                                                                         *)
(* Every `await` of the code is one step of a job: the event loop can      *)
(* switch to another coroutine only there.  A store operation is atomic.   *)
(***************************************************************************)
EXTENDS Integers, Sequences, FiniteSets, TLC

VARIABLES
  articles,     \* db.articles: a set of documents
  feeds,        \* db.feeds: a set of documents
  store_up,     \* whether MongoDB answers; an operation on a store that is down raises
  nextId,       \* the next ObjectId the store hands out
  now,          \* datetime.now(timezone.utc)
  content,      \* what each feed URL serves: the links of its entries, in feed order
  pc,           \* per job: the await the job is suspended at
  feedList,     \* fetch_all_enabled_feeds: `feeds`, the list loaded at the start
  pos,          \* fetch_all_enabled_feeds: index of the feed being fetched
  total,        \* fetch_all_enabled_feeds: total_new_articles
  count,        \* fetch_feed: new_articles_count
  idx,          \* fetch_feed: index of the entry of the `for entry in feed.entries` loop
  result,       \* what the last call of fetch_all_enabled_feeds gave its caller
  log,          \* history: what the current fetch_feed run has done, entry by entry
  settled,      \* history: per feed URL, whether a run over its content has completed
  prior,        \* history: `settled` of the feed, as it was when the current run began
  tainted,      \* history: an article was deleted while the current run was under way
  everDeleted,  \* history: some article has been deleted
  listed,       \* history: the URLs of the feeds enabled when the job loaded its list
  called,       \* history: the feed URLs fetch_feed was called for, in call order
  sumRet,       \* history: sum of the counts fetch_feed returned to this call
  starts,       \* number of calls of fetch_all_enabled_feeds so far
  outages,      \* number of store outages so far
  prefs,        \* db.preferences: <<>> or <<the one document>>
  backend,      \* which calls of the generation backend get an answer
  preferences,  \* fetch_feed: `preferences`, <<>> until the run has loaded them
  doc,          \* fetch_feed: `article_doc` of the entry being inserted, else <<>>
  recalc,       \* recalculate_all_scores: its locals and its answer
  sched,        \* scheduler.py `scheduler`: running or not, and the jobs of its job store
  cleanup,      \* cleanup_old_articles: its locals and what it logged
  http,         \* per client: the feed request under way, its locals, its last answer
  probe         \* one call of a method of AIProcessor: its arguments, the backend's
                \* answer, and what the method returned

store == <<articles, feeds, nextId>>
sch == <<sched, cleanup>>
ext == <<prefs, backend, recalc, sch, http, probe>>
env == <<store_up, now, content, starts, outages, ext>>
call == <<feedList, pos, total, result, called, sumRet, listed>>   \* of fetch_all_enabled_feeds
run == <<pc, count, idx, log, prior, tainted, preferences, doc>>  \* of fetch_feed
hist == <<settled, everDeleted>>

vars == <<store, env, call, run, hist>>

(* ---------------------------------------------------------------- bounds *)
MaxStarts == 2       \* calls of fetch_all_enabled_feeds
MaxOutages == 1      \* store outages
MaxTime == 2         \* clock ticks
MaxRequests == 2     \* feed requests of one client
MaxLines == 2        \* lines of an answer of the backend to the topic prompt
MaxBody == 5         \* sentences of an answer of the backend to the synopsis prompt

Jobs == {"scheduled", "manual"}   \* scheduler.py:18 and main.py:252
FeedUrls == {"f1", "f2"}
Clients == {"c1", "c2"}            \* of the HTTP API
FeedName(u) == IF u = "f1" THEN "A" ELSE "B"
None == 0                          \* last_fetched_at of a feed never fetched; the clock starts at 1

Absent == <<>>                     \* a document, a field or a local that is not there

(* ------------------------------------------------------ the preferences *)
DefaultMinScore == 5
DefaultPruneDays == 30

\* _get_user_preferences, lines 216-223: the preferences of an installation that has
\* stored none
DefaultPreferences ==
  [interests |-> <<"Python", "DevOps", "AI", "Web Development">>,
   min_relevance_score |-> DefaultMinScore,
   prune_after_days |-> DefaultPruneDays]

\* _get_user_preferences: db.preferences.find_one(), or the defaults
LoadPreferences == IF prefs = Absent THEN DefaultPreferences ELSE prefs[1]

(* --------------------------------------------------- the text classifier *)
\* entry.get('title', 'No Title') of the entry that carries this link
TitleOf(url) == CASE url = "u1" -> "t1" [] url = "u2" -> "t2" [] OTHER -> "No Title"

\* the `published` of the entry, as _parse_date gives it: None when the entry has none
EntryDate(url) == IF url = "u1" THEN None ELSE -1

\* content = entry.get('summary', '') or entry.get('description', ''), cleaned
ContentOf(url) == IF url = "" THEN "" ELSE "body"

\* What the backend answers to the synopsis prompt for an article: sentences.
SummaryResponse(title, text) ==
  CASE text = "" -> <<"s0">>
    [] title = "t1" -> <<"s1", "s2">>
    [] title = "t2" -> <<"s1", "s2", "s3", "s4", "s5">>
    [] OTHER -> <<"s1", "s2", "s3", "s4">>

\* What the backend answers to the topic prompt for an article: the tokens of its
\* "Tags:" line (or EXCLUDED) and the value of its "Quality:" line.
TopicResponse(title, text) ==
  CASE text = "" -> [excluded |-> FALSE, tags |-> <<"AI", "Rust", "Python", "ai", "DevOps">>,
                        quality |-> "great"]
    [] title = "t1" -> [excluded |-> FALSE, tags |-> <<"python">>, quality |-> "medium"]
    [] title = "t2" -> [excluded |-> FALSE, tags |-> <<>>, quality |-> "low"]
    [] OTHER -> [excluded |-> TRUE, tags |-> <<>>, quality |-> "high"]

\* str.lower()
Lower(t) ==
  CASE t = "Python" -> "python" [] t = "AI" -> "ai" [] t = "DevOps" -> "devops"
    [] t = "Rust" -> "rust" [] t = "Web Development" -> "web development"
    [] t = "High" -> "high" [] t = "None" -> "none" [] t = "EXCLUDED" -> "excluded"
    [] t = "Here is a summary" -> "here is a summary" [] t = "Summary" -> "summary"
    [] t = "This article" -> "this article" [] t = "Tags:" -> "tags:"
    [] t = "Quality:" -> "quality:" [] t = "QUALITY:" -> "quality:" [] OTHER -> t

\* str.upper()
Upper(t) == IF Lower(t) = "excluded" THEN "EXCLUDED" ELSE t

Take(sq, n) == SubSeq(sq, 1, IF Len(sq) < n THEN Len(sq) ELSE n)

OfflineSentinel == <<"Summary unavailable - AI service temporarily offline">>
MaxSentences == 4

\* A variant for comparison: an unreachable backend gets the generic failure text
summarize_article_generic_failure(title, text) ==
  IF backend.summary_ok THEN Take(SummaryResponse(title, text), MaxSentences)
  ELSE <<"Summary generation failed">>

\* summarize_article: the offline sentinel when the backend does not answer, else the
\* answer cut to its first 4 sentences (lines 105-107)
summarize_article(title, text) ==
  IF backend.summary_ok THEN Take(SummaryResponse(title, text), MaxSentences)
  ELSE OfflineSentinel

\* Lines 190-194: the tokens that match an interest, case-insensitively, each in the
\* interest list's capitalization (the last interest of that lowercase form)
RECURSIVE MatchTags(_, _)
MatchTags(raw, interests) ==
  IF raw = <<>> THEN <<>>
  ELSE LET hits == {k \in 1..Len(interests) : Lower(interests[k]) = Lower(Head(raw))}
       IN  (IF hits = {} THEN <<>>
            ELSE <<interests[CHOOSE k \in hits : \A m \in hits : m <= k]>>)
           \o MatchTags(Tail(raw), interests)

MaxTags == 3

\* A variant for comparison: two tags of low quality score 5
score_two_tags_low(is_excluded, ntags, quality) ==
  IF is_excluded THEN 0
  ELSE IF ntags = 0 THEN (IF quality = "high" THEN 3 ELSE IF quality = "medium" THEN 2 ELSE 1)
  ELSE IF ntags = 1 THEN (IF quality = "high" THEN 6 ELSE IF quality = "medium" THEN 5 ELSE 4)
  ELSE IF ntags = 2 THEN (IF quality = "high" THEN 8 ELSE IF quality = "medium" THEN 7 ELSE 5)
  ELSE (IF quality = "high" THEN 10 ELSE IF quality = "medium" THEN 9 ELSE 8)

\* Lines 200-235: the score of (is_excluded, len(tags), quality)
score(is_excluded, ntags, quality) ==
  IF is_excluded THEN 0
  ELSE IF ntags = 0 THEN (IF quality = "high" THEN 3 ELSE IF quality = "medium" THEN 2 ELSE 1)
  ELSE IF ntags = 1 THEN (IF quality = "high" THEN 6 ELSE IF quality = "medium" THEN 5 ELSE 4)
  ELSE IF ntags = 2 THEN (IF quality = "high" THEN 8 ELSE IF quality = "medium" THEN 7 ELSE 6)
  ELSE (IF quality = "high" THEN 10 ELSE IF quality = "medium" THEN 9 ELSE 8)

\* The answer of the backend as text: a sequence of lines, a line being its label as
\* written (up to the colon) and the comma-separated tokens after it.  This one has a
\* "Tags:" line and a "Quality:" line.
ResponseLines(r) ==
  <<[label |-> "Tags:", value |-> IF r.excluded THEN <<"EXCLUDED">> ELSE r.tags],
    [label |-> "Quality:", value |-> <<r.quality>>]>>

\* Lines 180-198, one line of result.split("\n"): line.startswith("Tags:") and
\* line.startswith("Quality:") compare the label as written; `acc` is (tags, quality,
\* is_excluded) so far
ParseLine(line, interests, acc) ==
  IF line.label = "Tags:"
  THEN IF Len(line.value) = 1 /\ Upper(line.value[1]) = "EXCLUDED"
       THEN [acc EXCEPT !.is_excluded = TRUE, !.tags = <<>>]
       ELSE IF line.value = <<>>
               \/ (Len(line.value) = 1 /\ Lower(line.value[1]) \in {"none", "n/a", "na"})
       THEN [acc EXCEPT !.tags = <<>>]
       ELSE [acc EXCEPT !.tags = Take(MatchTags(line.value, interests), MaxTags)]
  ELSE IF line.label = "Quality:"
  THEN IF Len(line.value) = 1 /\ Lower(line.value[1]) \in {"low", "medium", "high"}
       THEN [acc EXCEPT !.quality = Lower(line.value[1])]
       ELSE acc
  ELSE acc

\* Lines 175-198: the loop over the lines, from tags = [], quality = "medium",
\* is_excluded = False
RECURSIVE ParseLines(_, _, _)
ParseLines(lines, interests, acc) ==
  IF lines = <<>> THEN acc
  ELSE ParseLines(Tail(lines), interests, ParseLine(Head(lines), interests, acc))

\* Lines 172-237: the answer parsed, then scored
parse_and_score(lines, interests) ==
  LET r == ParseLines(lines, interests,
                      [tags |-> <<>>, quality |-> "medium", is_excluded |-> FALSE])
  IN  [score |-> score(r.is_excluded, Len(r.tags), r.quality), tags |-> r.tags]

\* score_relevance: (5, []) when the backend does not answer (lines 239-244), else the
\* parsed tags and the score computed from them
NeutralScore == 5
score_relevance(title, text, p) ==
  IF ~backend.topics_ok THEN [score |-> NeutralScore, tags |-> <<>>]
  ELSE parse_and_score(ResponseLines(TopicResponse(title, text)), p.interests)

(* ---- the synopsis as text: a sequence of tokens, each a phrase, a word, ":" or "." *)
\* len(token)
TokenLen(t) ==
  CASE t = "Here is a summary" -> 17 [] t = "This article" -> 12 [] t = "Summary" -> 7
    [] t = "Sure" -> 4 [] t = ":" -> 1 [] t = "." -> 1 [] t = "forty characters" -> 40
    [] OTHER -> 5

RECURSIVE Chars(_)
Chars(sq) == IF sq = <<>> THEN 0 ELSE TokenLen(Head(sq)) + Chars(Tail(sq))

\* Lines 88-94 and 96-97: summary_lower.startswith(prefix) for a prefix of the list
StartsWithPreamble(sq) ==
  /\ sq # <<>>
  /\ \/ Lower(sq[1]) \in {"here is a summary", "here's a summary", "this article",
                          "the article"}
     \/ Lower(sq[1]) = "summary" /\ Len(sq) > 1 /\ sq[2] = ":"

\* summary.split(':', 1)[1]: what follows the first colon
AfterColon(sq) ==
  LET at == CHOOSE i \in 1..Len(sq) : sq[i] = ":" /\ \A k \in 1..(i - 1) : sq[k] # ":"
  IN  SubSeq(sq, at + 1, Len(sq))

\* ':' in summary[:50]
ColonInFirst50(sq) ==
  \E i \in 1..Len(sq) : sq[i] = ":" /\ Chars(SubSeq(sq, 1, i - 1)) < 50

\* A variant for comparison: no preamble is removed
strip_preamble_never(sq) == sq

\* Lines 95-100: remove the preamble
strip_preamble(sq) ==
  IF StartsWithPreamble(sq) /\ ColonInFirst50(sq) THEN AfterColon(sq) ELSE sq

\* [s.strip() for s in summary.split('.') if s.strip()]: `cur` is the sentence so far
RECURSIVE SplitSentences(_, _)
SplitSentences(sq, cur) ==
  IF sq = <<>> THEN (IF cur = <<>> THEN <<>> ELSE <<cur>>)
  ELSE IF Head(sq) = "."
  THEN (IF cur = <<>> THEN <<>> ELSE <<cur>>) \o SplitSentences(Tail(sq), <<>>)
  ELSE SplitSentences(Tail(sq), Append(cur, Head(sq)))

\* Lines 86-109: the synopsis of an answer, as its sentences
post_process(sq) == Take(SplitSentences(strip_preamble(sq), <<>>), MaxSentences)

\* A variant for comparison: when either call fails, both results are the fallbacks
ai_process_article_coupled(title, text, p) ==
  IF backend.summary_ok /\ backend.topics_ok
  THEN [summary |-> summarize_article(title, text),
        relevance_score |-> score_relevance(title, text, p).score,
        tags |-> score_relevance(title, text, p).tags]
  ELSE [summary |-> OfflineSentinel, relevance_score |-> NeutralScore, tags |-> <<>>]

\* AIProcessor.process_article: both calls, gathered
ai_process_article(title, text, p) ==
  [summary |-> summarize_article(title, text),
   relevance_score |-> score_relevance(title, text, p).score,
   tags |-> score_relevance(title, text, p).tags]

(* ------------------------------------------------------- the item store *)
\* find_one({"url": url}) on db.articles, and the lookup the unique index makes
ArticlesByUrl(url) == {a \in articles : a.url = url}

\* A variant for comparison: the index on url is not unique
DuplicateKeyNever(d) == FALSE

\* the unique index on articles.url: inserting `doc` raises DuplicateKeyError
DuplicateKey(d) == ArticlesByUrl(d.url) # {}

\* A variant for comparison: the document is stored under a fresh value instead of the entry's link
article_doc_fresh_url(url, feed_name, p) ==
  LET ai_result == ai_process_article(TitleOf(url), ContentOf(url), p)
  IN  [url |-> ToString(nextId), title |-> TitleOf(url), source |-> feed_name,
       published_at |-> IF EntryDate(url) = None THEN now ELSE EntryDate(url),
       summary |-> ai_result.summary, relevance_score |-> ai_result.relevance_score,
       tags |-> ai_result.tags, is_read |-> FALSE, is_starred |-> Absent,
       is_hidden |-> ai_result.relevance_score < p.min_relevance_score,
       created_at |-> now]

\* A variant for comparison: an article whose score equals the threshold is hidden
article_doc_hidden_at_threshold(url, feed_name, p) ==
  LET ai_result == ai_process_article(TitleOf(url), ContentOf(url), p)
  IN  [url |-> url, title |-> TitleOf(url), source |-> feed_name,
       published_at |-> IF EntryDate(url) = None THEN now ELSE EntryDate(url),
       summary |-> ai_result.summary, relevance_score |-> ai_result.relevance_score,
       tags |-> ai_result.tags, is_read |-> FALSE, is_starred |-> Absent,
       is_hidden |-> ai_result.relevance_score <= p.min_relevance_score,
       created_at |-> now]

\* Lines 109-140: the document fetch_feed builds for an entry from the backend's
\* answers and the preferences `p` of the run; it sets no is_starred
article_doc(url, feed_name, p) ==
  LET ai_result == ai_process_article(TitleOf(url), ContentOf(url), p)
  IN  [url |-> url, title |-> TitleOf(url), source |-> feed_name,
       published_at |-> IF EntryDate(url) = None THEN now ELSE EntryDate(url),
       summary |-> ai_result.summary, relevance_score |-> ai_result.relevance_score,
       tags |-> ai_result.tags, is_read |-> FALSE, is_starred |-> Absent,
       is_hidden |-> ai_result.relevance_score < p.min_relevance_score,
       created_at |-> now]

\* insert_one: the store gives the document its _id
WithId(d, id) == [id |-> id] @@ d

(* ----------------------------------------------------- the feed registry *)
RECURSIVE SortById(_)
SortById(S) ==
  IF S = {} THEN <<>>
  ELSE LET x == CHOOSE y \in S : \A z \in S : y.id <= z.id
       IN  <<x>> \o SortById(S \ {x})

\* A variant for comparison: the listing does not filter on `enabled`
FindAll ==
  LET all == SortById(feeds)
  IN  [i \in 1..Len(all) |-> [url |-> all[i].url, name |-> all[i].name]]

\* db.feeds.find({"enabled": True}).to_list(100), in insertion order
FeedListLimit == 100
FindEnabled ==
  LET all == SortById({f \in feeds : f.enabled})
  IN  [i \in 1..(IF Len(all) < FeedListLimit THEN Len(all) ELSE FeedListLimit) |->
         [url |-> all[i].url, name |-> all[i].name]]

\* A variant for comparison: a successful fetch does not reset the error counter
RecordFetchSuccessKeepsErrors(url) ==
  {IF f.url = url THEN [f EXCEPT !.last_fetched_at = now] ELSE f : f \in feeds}

\* update_one({"url": url}, {"$set": {"last_fetched_at": now, "error_count": 0}})
RecordFetchSuccess(url) ==
  {IF f.url = url THEN [f EXCEPT !.last_fetched_at = now, !.error_count = 0] ELSE f
     : f \in feeds}

\* update_one({"url": url}, {"$inc": {"error_count": 1}})
RecordFetchError(url) ==
  {IF f.url = url THEN [f EXCEPT !.error_count = @ + 1] ELSE f : f \in feeds}

(* ------------------------------------------------------------- helpers *)
Cur(j) == feedList[j][pos[j]]           \* the feed the job's fetch_feed run is on
Entries(j) == content[Cur(j).url]       \* feed.entries of that run

RECURSIVE CountOf(_, _)
CountOf(sq, ev) ==                       \* how many events `ev` the log holds
  IF sq = <<>> THEN 0
  ELSE (IF Head(sq)[2] = ev THEN 1 ELSE 0) + CountOf(Tail(sq), ev)

Failures(sq) ==
  CountOf(sq, "check_err") + CountOf(sq, "process_err") + CountOf(sq, "insert_err")

\* The job stays inside its fetch_feed run: next await `p`, entry index `i`, and the
\* event `ev` of entry `at` (0: not an entry's event) is logged.
Goto(j, p, i, at, ev) ==
  /\ pc' = [pc EXCEPT ![j] = p]
  /\ idx' = [idx EXCEPT ![j] = i]
  /\ log' = [log EXCEPT ![j] = Append(@, <<at, ev>>)]
  /\ UNCHANGED <<prior, tainted, preferences, call, hist>>

\* `continue`, or the end of the `for entry in feed.entries` loop (lines 96-157)
NextEntry(j, ev) ==
  IF idx[j] < Len(Entries(j))
  THEN Goto(j, "check", idx[j] + 1, idx[j], ev)
  ELSE Goto(j, "update", idx[j], idx[j], ev)

\* A variant for comparison: an entry's exception reaches the feed-level handler
EntryFailedAborts(j, ev) == Goto(j, "handler", idx[j], idx[j], ev)

\* Lines 154-156: `except Exception: ... continue` around one entry
EntryFailed(j, ev) == NextEntry(j, ev)

\* fetch_all_enabled_feeds, lines 198-203: add the count the run returned, then call
\* fetch_feed for the next feed of the list, or return the total.
Advance(j, ret) ==
  /\ count' = [count EXCEPT ![j] = 0]
  /\ idx' = [idx EXCEPT ![j] = 0]
  /\ log' = [log EXCEPT ![j] = <<>>]
  /\ tainted' = [tainted EXCEPT ![j] = FALSE]
  /\ preferences' = [preferences EXCEPT ![j] = Absent]
  /\ sumRet' = [sumRet EXCEPT ![j] = @ + ret]
  /\ listed' = listed
  /\ IF pos[j] < Len(feedList[j])
     THEN /\ pos' = [pos EXCEPT ![j] = @ + 1]
          /\ total' = [total EXCEPT ![j] = @ + ret]
          /\ pc' = [pc EXCEPT ![j] = "fetch"]
          /\ prior' = [prior EXCEPT ![j] = settled'[feedList[j][pos[j] + 1].url]]
          /\ called' = [called EXCEPT ![j] = Append(@, feedList[j][pos[j] + 1].url)]
          /\ UNCHANGED <<feedList, result>>
     ELSE /\ result' = [result EXCEPT ![j] =
                          [status |-> "returned", value |-> total[j] + ret, how |-> "normal"]]
          /\ pc' = [pc EXCEPT ![j] = "idle"]
          /\ pos' = [pos EXCEPT ![j] = 0]
          /\ total' = [total EXCEPT ![j] = 0]
          /\ feedList' = [feedList EXCEPT ![j] = <<>>]
          /\ prior' = [prior EXCEPT ![j] = "no"]
          /\ called' = called

\* fetch_feed returns `ret` to fetch_all_enabled_feeds.
Return(j, outcome, ret) ==
  /\ settled' = IF outcome # "success" \/ tainted[j] \/ settled[Cur(j).url] = "clean"
                THEN settled
                ELSE [settled EXCEPT ![Cur(j).url] =
                        IF Failures(log[j]) = 0 THEN "clean" ELSE "completed"]
  /\ everDeleted' = everDeleted
  /\ Advance(j, ret)

\* An exception leaves fetch_feed; fetch_all_enabled_feeds catches it at line 205
\* and returns 0.
Raise(j) ==
  /\ result' = [result EXCEPT ![j] = [status |-> "returned", value |-> 0, how |-> "caught"]]
  /\ pc' = [pc EXCEPT ![j] = "idle"]
  /\ pos' = [pos EXCEPT ![j] = 0]
  /\ total' = [total EXCEPT ![j] = 0]
  /\ count' = [count EXCEPT ![j] = 0]
  /\ idx' = [idx EXCEPT ![j] = 0]
  /\ feedList' = [feedList EXCEPT ![j] = <<>>]
  /\ log' = [log EXCEPT ![j] = <<>>]
  /\ prior' = [prior EXCEPT ![j] = "no"]
  /\ tainted' = [tainted EXCEPT ![j] = FALSE]
  /\ preferences' = [preferences EXCEPT ![j] = Absent]
  /\ UNCHANGED <<called, sumRet, listed, hist>>

(* ------------------------------------------------------------------ Init *)
Contents == {[u \in FeedUrls |-> IF u = "f1" THEN <<"u1", "u2">> ELSE <<"u1">>],
             [u \in FeedUrls |-> IF u = "f1" THEN <<>> ELSE <<"u2", "u2">>]}

\* Two feeds as create_feed registers them, never fetched
NewFeeds ==
  {[id |-> 1, url |-> "f1", name |-> FeedName("f1"), enabled |-> TRUE,
    last_fetched_at |-> None, error_count |-> 0],
   [id |-> 2, url |-> "f2", name |-> FeedName("f2"), enabled |-> TRUE,
    last_fetched_at |-> None, error_count |-> 0]}

\* The store answers, no call is under way, nothing has happened yet.
Quiet ==
  /\ store_up = TRUE
  /\ now = 1
  /\ pc = [j \in Jobs |-> "idle"]
  /\ feedList = [j \in Jobs |-> <<>>]
  /\ pos = [j \in Jobs |-> 0]
  /\ total = [j \in Jobs |-> 0]
  /\ count = [j \in Jobs |-> 0]
  /\ idx = [j \in Jobs |-> 0]
  /\ result = [j \in Jobs |-> [status |-> "none", value |-> 0, how |-> "none"]]
  /\ log = [j \in Jobs |-> <<>>]
  /\ settled = [u \in FeedUrls |-> "no"]
  /\ prior = [j \in Jobs |-> "no"]
  /\ tainted = [j \in Jobs |-> FALSE]
  /\ everDeleted = FALSE
  /\ listed = [j \in Jobs |-> {}]
  /\ called = [j \in Jobs |-> <<>>]
  /\ sumRet = [j \in Jobs |-> 0]
  /\ starts = 0
  /\ outages = 0
  /\ preferences = [j \in Jobs |-> Absent]
  /\ doc = [j \in Jobs |-> Absent]
  /\ recalc = [pc |-> "idle", preferences |-> Absent, batch |-> <<>>, pos |-> 0,
               result |-> Absent, processed |-> 0, status |-> 0]
  /\ sched = [running |-> FALSE, jobs |-> <<>>, logged |-> "none"]
  /\ cleanup = [pc |-> "idle", prune_after_days |-> 0, fired |-> 0, errors |-> 0,
                last |-> "none"]
  /\ http = [c \in Clients |-> [op |-> "none", pc |-> "idle", feed |-> Absent,
                                 status |-> 0, requests |-> 0]]

\* ... and no method of AIProcessor is called on its own.
Idle ==
  /\ Quiet
  /\ probe = [method |-> "none", answer |-> <<>>, interests |-> <<>>, out |-> Absent]

\* A fresh installation: no article, no stored preferences, the backend answers.
Init ==
  /\ Idle
  /\ articles = {}
  /\ feeds = NewFeeds
  /\ nextId = 1
  /\ content \in Contents
  /\ prefs = Absent
  /\ backend = [summary_ok |-> TRUE, topics_ok |-> TRUE]

(* ------------------------------------------- fetch_all_enabled_feeds *)
\* Lines 183-196 and 205-207: list the enabled feeds; return 0 when there is none, or
\* when the listing raises; else call fetch_feed for the first one.
fetch_all_enabled_feeds(j) ==
  /\ pc[j] = "idle"
  /\ starts < MaxStarts
  /\ starts' = starts + 1
  /\ listed' = [listed EXCEPT ![j] = {f.url : f \in {g \in feeds : g.enabled}}]
  /\ sumRet' = [sumRet EXCEPT ![j] = 0]
  /\ IF store_up /\ FindEnabled # <<>>
     THEN /\ feedList' = [feedList EXCEPT ![j] = FindEnabled]
          /\ pos' = [pos EXCEPT ![j] = 1]
          /\ total' = [total EXCEPT ![j] = 0]
          /\ pc' = [pc EXCEPT ![j] = "fetch"]
          /\ result' = [result EXCEPT ![j] =
                          [status |-> "running", value |-> 0, how |-> "none"]]
          /\ prior' = [prior EXCEPT ![j] = settled[FindEnabled[1].url]]
          /\ called' = [called EXCEPT ![j] = <<FindEnabled[1].url>>]
     ELSE /\ result' = [result EXCEPT ![j] =
                          [status |-> "returned", value |-> 0,
                           how |-> IF store_up THEN "normal" ELSE "caught"]]
          /\ called' = [called EXCEPT ![j] = <<>>]
          /\ UNCHANGED <<feedList, pos, total, pc, prior>>
  /\ UNCHANGED <<store, store_up, now, content, outages, ext, count, idx, log, tainted,
                 preferences, doc, hist>>

(* ------------------------------------------------------------ fetch_feed *)
\* Lines 81-83 with _fetch_feed_content (42-56): a timeout, an HTTP error status or a
\* transport error gives None, and fetch_feed returns 0.
fetch_feed_content(j) ==
  /\ pc[j] = "fetch"
  /\ \E ok \in BOOLEAN :
       IF ok
       THEN /\ pc' = [pc EXCEPT ![j] = "prefs"]
            /\ UNCHANGED <<count, idx, log, prior, tainted, preferences, call, hist>>
       ELSE Return(j, "fetch_failed", 0)
  /\ UNCHANGED <<store, env, doc>>

\* Lines 86-96 with _get_user_preferences (209-223): parse, load the preferences,
\* new_articles_count = 0, enter the loop.  A store that is down raises into line 172.
get_user_preferences(j) ==
  /\ pc[j] = "prefs"
  /\ IF store_up
     THEN /\ count' = [count EXCEPT ![j] = 0]
          /\ pc' = [pc EXCEPT ![j] = IF Entries(j) = <<>> THEN "update" ELSE "check"]
          /\ idx' = [idx EXCEPT ![j] = IF Entries(j) = <<>> THEN 0 ELSE 1]
          /\ preferences' = [preferences EXCEPT ![j] = <<LoadPreferences>>]
          /\ UNCHANGED <<log, prior, tainted, call, hist>>
     ELSE /\ Goto(j, "handler", idx[j], 0, "prefs_err")
          /\ count' = count
  /\ UNCHANGED <<store, env, doc>>

\* A variant for comparison: the pre-check does not skip an article it found
find_one_no_skip(j) ==
  /\ pc[j] = "check"
  /\ IF ~store_up
     THEN EntryFailed(j, "check_err")
     ELSE IF ArticlesByUrl(Entries(j)[idx[j]]) # {}
     THEN Goto(j, "process", idx[j], idx[j], "found")
     ELSE Goto(j, "process", idx[j], idx[j], "absent")
  /\ UNCHANGED <<store, env, count, doc>>

\* Lines 98-107: the pre-check.  An existing article is skipped; a store that is down
\* raises into line 154.
find_one(j) ==
  /\ pc[j] = "check"
  /\ IF ~store_up
     THEN EntryFailed(j, "check_err")
     ELSE IF ArticlesByUrl(Entries(j)[idx[j]]) # {}
     THEN NextEntry(j, "found")
     ELSE Goto(j, "process", idx[j], idx[j], "absent")
  /\ UNCHANGED <<store, env, count, doc>>

\* A variant for comparison: each entry is classified under the preferences stored at
\* that moment
process_article_rereads(j) ==
  /\ pc[j] = "process"
  /\ \E ok \in BOOLEAN :
       IF ok
       THEN /\ Goto(j, "insert", idx[j], idx[j], "process")
            /\ doc' = [doc EXCEPT ![j] =
                         <<article_doc(Entries(j)[idx[j]], Cur(j).name, LoadPreferences)>>]
       ELSE /\ EntryFailed(j, "process_err")
            /\ doc' = doc
  /\ UNCHANGED <<store, env, count>>

\* Lines 109-140: clean the body, parse the date, call the backend through
\* ai_processor.process_article, build the document.  An exception here (a date the
\* parser overflows on) goes to line 154.
process_article(j) ==
  /\ pc[j] = "process"
  /\ \E ok \in BOOLEAN :
       IF ok
       THEN /\ Goto(j, "insert", idx[j], idx[j], "process")
            /\ doc' = [doc EXCEPT ![j] =
                         <<article_doc(Entries(j)[idx[j]], Cur(j).name, preferences[j][1])>>]
       ELSE /\ EntryFailed(j, "process_err")
            /\ doc' = doc
  /\ UNCHANGED <<store, env, count>>

\* A variant for comparison: new_articles_count is incremented before the insert is known to succeed
insert_one_counts_first(j) ==
  /\ pc[j] = "insert"
  /\ LET d == doc[j][1] IN
     IF ~store_up
     THEN /\ EntryFailed(j, "insert_err")
          /\ UNCHANGED <<articles, nextId, count>>
     ELSE IF DuplicateKey(d)
     THEN /\ NextEntry(j, "dup")
          /\ count' = [count EXCEPT ![j] = @ + 1]
          /\ UNCHANGED <<articles, nextId>>
     ELSE /\ articles' = articles \cup {WithId(d, nextId)}
          /\ nextId' = nextId + 1
          /\ count' = [count EXCEPT ![j] = @ + 1]
          /\ NextEntry(j, "inserted")
  /\ doc' = [doc EXCEPT ![j] = Absent]
  /\ UNCHANGED <<feeds, env>>

\* Lines 142-156: the guarded insert.
insert_one(j) ==
  /\ pc[j] = "insert"
  /\ LET d == doc[j][1] IN
     IF ~store_up
     THEN /\ EntryFailed(j, "insert_err")
          /\ UNCHANGED <<articles, nextId, count>>
     ELSE IF DuplicateKey(d)
     THEN /\ NextEntry(j, "dup")
          /\ UNCHANGED <<articles, nextId, count>>
     ELSE /\ articles' = articles \cup {WithId(d, nextId)}
          /\ nextId' = nextId + 1
          /\ count' = [count EXCEPT ![j] = @ + 1]
          /\ NextEntry(j, "inserted")
  /\ doc' = [doc EXCEPT ![j] = Absent]
  /\ UNCHANGED <<feeds, env>>

\* Lines 158-170: record the successful fetch and return the count.  A store that is
\* down raises into line 172.
update_one_success(j) ==
  /\ pc[j] = "update"
  /\ IF store_up
     THEN /\ feeds' = RecordFetchSuccess(Cur(j).url)
          /\ Return(j, "success", count[j])
     ELSE /\ Goto(j, "handler", idx[j], 0, "update_err")
          /\ UNCHANGED <<feeds, count>>
  /\ UNCHANGED <<articles, nextId, env, doc>>

\* Lines 172-181: the feed-level handler increments the error counter and returns 0.
\* When this update raises too, the exception leaves fetch_feed.
update_one_error(j) ==
  /\ pc[j] = "handler"
  /\ IF store_up
     THEN /\ feeds' = RecordFetchError(Cur(j).url)
          /\ Return(j, "failed", 0)
     ELSE /\ Raise(j)
          /\ feeds' = feeds
  /\ UNCHANGED <<articles, nextId, env, doc>>

(* --------------------------------------------------- the other endpoints *)
\* models.py UserPreferences: the value of a field the stored document lacks
ModelPreferences ==
  [interests |-> <<>>, min_relevance_score |-> DefaultMinScore,
   prune_after_days |-> DefaultPruneDays]

\* main.py update_preferences: update_one({}, {"$set": update_data}, upsert=True), where
\* update_data holds the fields the request set (`u` has Absent for the others)
update_preferences(u) ==
  /\ store_up
  /\ LET old == IF prefs = Absent THEN ModelPreferences ELSE prefs[1]
         new == [interests |-> IF u.interests = Absent THEN old.interests
                               ELSE u.interests[1],
                 min_relevance_score |-> IF u.min_relevance_score = Absent
                                         THEN old.min_relevance_score
                                         ELSE u.min_relevance_score[1],
                 prune_after_days |-> IF u.prune_after_days = Absent
                                      THEN old.prune_after_days
                                      ELSE u.prune_after_days[1]]
     IN  /\ prefs # <<new>>
         /\ prefs' = <<new>>
  /\ UNCHANGED <<store, store_up, now, content, starts, outages, backend, probe, http, recalc, sch,
                 call, run,
                 hist>>

\* A JSON null in a request body, None in a validated model and in a stored document
Null == -999

\* models.py PreferencesUpdate, lines 135-140, applied by FastAPI to the request body
\* before update_preferences is called: min_relevance_score is None or an int in
\* 0..10, prune_after_days is None or an int in 1..365, and one field outside its
\* range rejects the whole request (422)
ValidationError(u) ==
  \/ /\ u.min_relevance_score # Absent
     /\ u.min_relevance_score[1] # Null
     /\ u.min_relevance_score[1] \notin 0..10
  \/ /\ u.prune_after_days # Absent
     /\ u.prune_after_days[1] # Null
     /\ u.prune_after_days[1] \notin 1..365

\* PUT /api/preferences: a body that passes the validation reaches update_preferences,
\* whose update_data holds every field the body set, a null included
put_preferences(u) ==
  /\ ~ValidationError(u)
  /\ update_preferences(u)

\* main.py refresh_articles: the answer to a manual refresh whose call of
\* fetch_all_enabled_feeds ended as `r`; the failure answer needs the call to raise
refresh_articles(r) ==
  IF r.status = "raised"
  THEN [success |-> FALSE, new_articles |-> 0]
  ELSE [success |-> TRUE, new_articles |-> r.value]

\* main.py delete_all_articles: delete_many({})
delete_all_articles ==
  /\ store_up
  /\ articles # {}
  /\ articles' = {}
  /\ everDeleted' = TRUE
  /\ settled' = [u \in FeedUrls |-> "no"]
  /\ prior' = [j \in Jobs |-> "no"]
  /\ tainted' = [j \in Jobs |-> pc[j] # "idle"]
  /\ UNCHANGED <<feeds, nextId, env, call, pc, count, idx, log, preferences, doc>>

\* main.py update_feed: update_one({"_id": oid}, {"$set": {"enabled": e}})
update_feed(u, e) ==
  /\ store_up
  /\ \E f \in feeds : f.url = u /\ f.enabled # e
  /\ feeds' = {IF f.url = u THEN [f EXCEPT !.enabled = e] ELSE f : f \in feeds}
  /\ UNCHANGED <<articles, nextId, env, call, run, hist>>

(* ------------------------------------------- calls of AIProcessor methods *)
\* score_relevance on an answer of the backend: lines 172-237
score_relevance_call ==
  /\ probe.method = "score_relevance"
  /\ probe.out = Absent
  /\ probe' = [probe EXCEPT !.out = <<parse_and_score(probe.answer, probe.interests)>>]
  /\ UNCHANGED <<store, store_up, now, content, starts, outages, prefs, backend, recalc,
                 sch, http, call, run, hist>>

\* summarize_article on an answer of the backend: lines 86-109
summarize_article_call ==
  /\ probe.method = "summarize_article"
  /\ probe.out = Absent
  /\ probe' = [probe EXCEPT !.out = <<post_process(probe.answer)>>]
  /\ UNCHANGED <<store, store_up, now, content, starts, outages, prefs, backend, recalc,
                 sch, http, call, run, hist>>

(* ------------------------------------------------------ the feed registry *)
\* The request of client `c` ends with HTTP status `status`; an exception that no
\* handler catches is answered 500
Respond(c, status) ==
  http' = [http EXCEPT ![c] = [@ EXCEPT !.pc = "idle", !.feed = Absent,
                                        !.status = status]]

\* main.py create_feed, lines 339-357: find_one({"url": feed_url}); 400 'Feed already
\* exists' when there is one, else the document to insert
create_feed(c, url, name) ==
  /\ http[c].pc = "idle"
  /\ http[c].requests < MaxRequests
  /\ LET feed_doc == [url |-> url, name |-> name, enabled |-> TRUE,
                      last_fetched_at |-> None, error_count |-> 0]
         request == [http[c] EXCEPT !.op = "create_feed", !.requests = @ + 1,
                                    !.feed = <<feed_doc>>, !.status = 0]
     IN  http' = [http EXCEPT ![c] =
                    IF ~store_up
                    THEN [request EXCEPT !.status = 500]
                    ELSE IF \E f \in feeds : f.url = url
                    THEN [request EXCEPT !.status = 400]
                    ELSE [request EXCEPT !.pc = "insert_one"]]
  /\ UNCHANGED <<store, store_up, now, content, starts, outages, prefs, backend, probe, recalc,
                 sch, call, run, hist>>

\* A variant for comparison: the feeds collection has no unique index on url
create_feed_insert_one_no_index(c) ==
  /\ http[c].pc = "insert_one"
  /\ IF ~store_up
     THEN Respond(c, 500) /\ UNCHANGED <<feeds, nextId>>
     ELSE /\ feeds' = feeds \cup {WithId(http[c].feed[1], nextId)}
          /\ nextId' = nextId + 1
          /\ Respond(c, 200)
  /\ UNCHANGED <<articles, store_up, now, content, starts, outages, prefs, backend, probe,
                 recalc, sch, call, run, hist>>

\* main.py create_feed, lines 359-370: insert_one(feed_doc); the unique index on url
\* (database.py:67) makes it raise DuplicateKeyError when the url is registered now
create_feed_insert_one(c) ==
  /\ http[c].pc = "insert_one"
  /\ IF ~store_up \/ \E f \in feeds : f.url = http[c].feed[1].url
     THEN Respond(c, 500) /\ UNCHANGED <<feeds, nextId>>
     ELSE /\ feeds' = feeds \cup {WithId(http[c].feed[1], nextId)}
          /\ nextId' = nextId + 1
          /\ Respond(c, 200)
  /\ UNCHANGED <<articles, store_up, now, content, starts, outages, prefs, backend, probe,
                 recalc, sch, call, run, hist>>

\* main.py delete_feed, lines 398-411: find_one({"_id": oid}); 404 when there is none
delete_feed(c, id) ==
  /\ http[c].pc = "idle"
  /\ http[c].requests < MaxRequests
  /\ LET request == [http[c] EXCEPT !.op = "delete_feed", !.requests = @ + 1,
                                    !.status = 0]
     IN  http' = [http EXCEPT ![c] =
                    IF ~store_up
                    THEN [request EXCEPT !.status = 500]
                    ELSE IF \E f \in feeds : f.id = id
                    THEN [request EXCEPT
                            !.pc = "delete_one",
                            !.feed = <<CHOOSE f \in feeds : f.id = id>>]
                    ELSE [request EXCEPT !.status = 404]]
  /\ UNCHANGED <<store, store_up, now, content, starts, outages, prefs, backend, probe, recalc,
                 sch, call, run, hist>>

\* main.py delete_feed, line 414: delete_one({"_id": oid})
delete_feed_delete_one(c) ==
  /\ http[c].pc = "delete_one"
  /\ IF ~store_up
     THEN Respond(c, 500) /\ UNCHANGED feeds
     ELSE /\ feeds' = {f \in feeds : f.id # http[c].feed[1].id}
          /\ http' = [http EXCEPT ![c] = [@ EXCEPT !.pc = "delete_many"]]
  /\ UNCHANGED <<articles, nextId, store_up, now, content, starts, outages, prefs,
                 backend, recalc, sch, probe, call, run, hist>>

\* The articles delete_feed removes: those whose source is the name of the feed
Cascade(feed_name) == {a \in articles : a.source = feed_name}

\* main.py delete_feed, lines 416-428: delete_many({"source": feed_name}), with the
\* setting delete_articles_on_feed_removal (config.py:23) at its default True
delete_feed_delete_many(c) ==
  /\ http[c].pc = "delete_many"
  /\ IF ~store_up
     THEN Respond(c, 500) /\ UNCHANGED <<articles, hist, prior, tainted>>
     ELSE LET gone == Cascade(http[c].feed[1].name)
          IN  /\ articles' = articles \ gone
              /\ Respond(c, 200)
              /\ IF gone = {}
                 THEN UNCHANGED <<hist, prior, tainted>>
                 ELSE /\ everDeleted' = TRUE
                      /\ settled' = [u \in FeedUrls |-> "no"]
                      /\ prior' = [j \in Jobs |-> "no"]
                      /\ tainted' = [j \in Jobs |-> pc[j] # "idle"]
  /\ UNCHANGED <<feeds, nextId, store_up, now, content, starts, outages, prefs, backend, probe,
                 recalc, sch, call, pc, count, idx, log, preferences, doc>>

(* ------------------------------------------------ recalculate_all_scores *)
\* The request ends with HTTP status `status`.
Answer(status, processed) ==
  recalc' = [pc |-> "idle", preferences |-> Absent, batch |-> <<>>, pos |-> 0,
             result |-> Absent, processed |-> processed, status |-> status]

\* Lines 500-514: load the preferences; 400 when there are none, 500 when the store
\* does not answer
recalculate_all_scores ==
  /\ recalc.pc = "idle"
  /\ recalc.status = 0
  /\ IF ~store_up THEN Answer(500, 0)
     ELSE IF prefs = Absent THEN Answer(400, 0)
     ELSE recalc' = [recalc EXCEPT !.pc = "cursor", !.preferences = prefs]
  /\ UNCHANGED <<store, store_up, now, content, starts, outages, prefs, backend, probe, http, sch,
                 call, run,
                 hist>>

\* Line 520: the cursor loads the articles (one batch); no article, no work
recalculate_cursor ==
  /\ recalc.pc = "cursor"
  /\ IF ~store_up THEN Answer(500, 0)
     ELSE IF articles = {} THEN Answer(200, 0)
     ELSE recalc' = [recalc EXCEPT !.pc = "process", !.batch = SortById(articles),
                                   !.pos = 1]
  /\ UNCHANGED <<store, store_up, now, content, starts, outages, prefs, backend, probe, http, sch,
                 call, run,
                 hist>>

\* Lines 523-530: classify the article from its title and its stored content; no
\* article document has a content field, so the content is ''
recalculate_process ==
  /\ recalc.pc = "process"
  /\ recalc' = [recalc EXCEPT
                  !.pc = "update",
                  !.result = <<ai_process_article(recalc.batch[recalc.pos].title, "",
                                                  recalc.preferences[1])>>]
  /\ UNCHANGED <<store, store_up, now, content, starts, outages, prefs, backend, probe, http, sch,
                 call, run,
                 hist>>

\* Lines 520 and 542-553: on to the next article of the batch, or the answer
RecalcNext(processed) ==
  IF recalc.pos < Len(recalc.batch)
  THEN recalc' = [recalc EXCEPT !.pc = "process", !.pos = @ + 1, !.result = Absent,
                                !.processed = processed]
  ELSE Answer(200, processed)

\* A variant for comparison: the article is written back whole, from the copy the
\* cursor read
recalculate_update_replaces ==
  /\ recalc.pc = "update"
  /\ LET article == recalc.batch[recalc.pos]
         r == recalc.result[1]
     IN  IF store_up
         THEN /\ articles' =
                   {IF a.id = article.id
                    THEN [article EXCEPT
                            !.summary = r.summary,
                            !.tags = r.tags,
                            !.relevance_score = r.relevance_score,
                            !.is_hidden = r.relevance_score
                                            < recalc.preferences[1].min_relevance_score]
                    ELSE a : a \in articles}
              /\ RecalcNext(recalc.processed + 1)
         ELSE /\ articles' = articles
              /\ RecalcNext(recalc.processed)
  /\ UNCHANGED <<feeds, nextId, store_up, now, content, starts, outages, prefs, backend, probe, http, sch,
                 call, run, hist>>

\* Lines 529-546: update_one({"_id": ...}, {"$set": summary, tags, relevance_score,
\* is_hidden}); an update that raises is logged and the loop goes on
recalculate_update ==
  /\ recalc.pc = "update"
  /\ LET article == recalc.batch[recalc.pos]
         r == recalc.result[1]
     IN  IF store_up
         THEN /\ articles' =
                   {IF a.id = article.id
                    THEN [a EXCEPT
                            !.summary = r.summary,
                            !.tags = r.tags,
                            !.relevance_score = r.relevance_score,
                            !.is_hidden = r.relevance_score
                                            < recalc.preferences[1].min_relevance_score]
                    ELSE a : a \in articles}
              /\ RecalcNext(recalc.processed + 1)
         ELSE /\ articles' = articles
              /\ RecalcNext(recalc.processed)
  /\ UNCHANGED <<feeds, nextId, store_up, now, content, starts, outages, prefs, backend, probe, http, sch,
                 call, run, hist>>

(* ------------------------------------------------------ the user actions *)
\* main.py mark_article_read: update_one({"_id": oid}, {"$set": {"is_read": b}})
mark_article_read(id, b) ==
  /\ store_up
  /\ \E a \in articles : a.id = id /\ a.is_read # b
  /\ articles' = {IF a.id = id THEN [a EXCEPT !.is_read = b] ELSE a : a \in articles}
  /\ UNCHANGED <<feeds, nextId, env, call, run, hist>>

\* A variant for comparison: the article is stored anew, with a new creation timestamp
toggle_article_star_restamps(id, b) ==
  /\ store_up
  /\ \E a \in articles : a.id = id /\ a.is_starred # <<b>>
  /\ articles' = {IF a.id = id THEN [a EXCEPT !.is_starred = <<b>>, !.created_at = now]
                  ELSE a : a \in articles}
  /\ UNCHANGED <<feeds, nextId, env, call, run, hist>>

\* main.py toggle_article_star: update_one({"_id": oid}, {"$set": {"is_starred": b}})
toggle_article_star(id, b) ==
  /\ store_up
  /\ \E a \in articles : a.id = id /\ a.is_starred # <<b>>
  /\ articles' = {IF a.id = id THEN [a EXCEPT !.is_starred = <<b>>] ELSE a : a \in articles}
  /\ UNCHANGED <<feeds, nextId, env, call, run, hist>>

(* ---------------------------------------------------------- the scheduler *)
FetchJob == "rss_fetch_job"
CleanupJob == "cleanup_old_articles_job"

\* The definitions the job store holds under this id; each definition of a running
\* scheduler fires once per interval
Definitions(id) == {i \in 1..Len(sched.jobs) : sched.jobs[i].id = id}

Scheduled(id) == sched.running /\ Definitions(id) # {}

\* A variant for comparison: the job store takes a second job under an id it holds
add_job_appends(jobs, id) == Append(jobs, [id |-> id, defined_at |-> now])

\* scheduler.add_job(..., id=id, replace_existing=True): the job replaces the one the
\* job store holds under this id, or is added
add_job(jobs, id) ==
  IF \E i \in 1..Len(jobs) : jobs[i].id = id
  THEN [i \in 1..Len(jobs) |->
          IF jobs[i].id = id THEN [id |-> id, defined_at |-> now] ELSE jobs[i]]
  ELSE Append(jobs, [id |-> id, defined_at |-> now])

\* start_scheduler: the two add_job calls, then scheduler.start(), which raises
\* SchedulerAlreadyRunningError on a running scheduler; the except logs it
start_scheduler ==
  /\ LET jobs == add_job(add_job(sched.jobs, FetchJob), CleanupJob)
     IN  sched' = IF sched.running
                  THEN [sched EXCEPT !.jobs = jobs, !.logged = "Failed to start scheduler"]
                  ELSE [running |-> TRUE, jobs |-> jobs, logged |-> "Scheduler started"]
  /\ UNCHANGED <<store, store_up, now, content, starts, outages, prefs, backend, probe, http, recalc,
                 cleanup, call, run, hist>>

\* shutdown_scheduler: scheduler.shutdown() when scheduler.running, which also shuts
\* the job store down; nothing otherwise
shutdown_scheduler ==
  /\ sched' = IF sched.running
              THEN [running |-> FALSE, jobs |-> <<>>, logged |-> "Scheduler shut down"]
              ELSE sched
  /\ UNCHANGED <<store, store_up, now, content, starts, outages, prefs, backend, probe, http, recalc,
                 cleanup, call, run, hist>>

\* scheduled_feed_fetch: a firing of the fetch job; fetch_all_enabled_feeds has caught
\* whatever was raised inside it
scheduled_feed_fetch ==
  /\ Scheduled(FetchJob)
  /\ fetch_all_enabled_feeds("scheduled")

\* A variant for comparison: the error of a firing gets out of the job and ends the
\* scheduler
CaughtStopsScheduler ==
  /\ cleanup' = [cleanup EXCEPT !.pc = "idle", !.errors = @ + 1, !.last = "error",
                                !.fired = IF cleanup.pc = "idle" THEN @ + 1 ELSE @]
  /\ sched' = [sched EXCEPT !.running = FALSE]

\* cleanup_old_articles, lines 45-46: whatever a firing raises is logged
Caught ==
  /\ cleanup' = [cleanup EXCEPT !.pc = "idle", !.errors = @ + 1, !.last = "error",
                                !.fired = IF cleanup.pc = "idle" THEN @ + 1 ELSE @]
  /\ sched' = sched

\* cleanup_old_articles, lines 24-32: a firing of the retention job reads
\* prune_after_days, 30 when there is no preferences document
cleanup_old_articles ==
  /\ Scheduled(CleanupJob)
  /\ cleanup.pc = "idle"
  /\ cleanup.fired < MaxStarts
  /\ IF store_up
     THEN /\ cleanup' = [cleanup EXCEPT
                           !.pc = "delete_many",
                           !.fired = @ + 1,
                           !.prune_after_days = IF prefs = Absent THEN DefaultPruneDays
                                                ELSE prefs[1].prune_after_days]
          /\ sched' = sched
     ELSE Caught
  /\ UNCHANGED <<store, store_up, now, content, starts, outages, prefs, backend, probe, http, recalc,
                 call, run, hist>>

\* The articles delete_many removes at this cutoff
Pruned(cutoff_date) ==
  {a \in articles : a.is_starred # <<TRUE>> /\ a.created_at < cutoff_date}

\* A variant for comparison: the cutoff is compared with the publication timestamp
delete_many_by_published_at ==
  /\ cleanup.pc = "delete_many"
  /\ IF store_up
     THEN LET cutoff_date == now - cleanup.prune_after_days
              gone == {a \in articles :
                         a.is_starred # <<TRUE>> /\ a.published_at < cutoff_date}
          IN  /\ articles' = articles \ gone
              /\ cleanup' = [cleanup EXCEPT !.pc = "idle", !.last = "ok"]
              /\ sched' = sched
              /\ IF gone = {}
                 THEN UNCHANGED <<hist, prior, tainted>>
                 ELSE /\ everDeleted' = TRUE
                      /\ settled' = [u \in FeedUrls |-> "no"]
                      /\ prior' = [j \in Jobs |-> "no"]
                      /\ tainted' = [j \in Jobs |-> pc[j] # "idle"]
     ELSE /\ Caught
          /\ UNCHANGED <<articles, hist, prior, tainted>>
  /\ UNCHANGED <<feeds, nextId, store_up, now, content, starts, outages, prefs, backend, probe, http,
                 recalc, call, pc, count, idx, log, preferences, doc>>

\* cleanup_old_articles, lines 34-44: cutoff_date = now - prune_after_days, then
\* delete_many({is_starred: {$ne: True}, created_at: {$lt: cutoff_date}})
delete_many ==
  /\ cleanup.pc = "delete_many"
  /\ IF store_up
     THEN LET cutoff_date == now - cleanup.prune_after_days
              gone == Pruned(cutoff_date)
          IN  /\ articles' = articles \ gone
              /\ cleanup' = [cleanup EXCEPT !.pc = "idle", !.last = "ok"]
              /\ sched' = sched
              /\ IF gone = {}
                 THEN UNCHANGED <<hist, prior, tainted>>
                 ELSE /\ everDeleted' = TRUE
                      /\ settled' = [u \in FeedUrls |-> "no"]
                      /\ prior' = [j \in Jobs |-> "no"]
                      /\ tainted' = [j \in Jobs |-> pc[j] # "idle"]
     ELSE /\ Caught
          /\ UNCHANGED <<articles, hist, prior, tainted>>
  /\ UNCHANGED <<feeds, nextId, store_up, now, content, starts, outages, prefs, backend, probe, http,
                 recalc, call, pc, count, idx, log, preferences, doc>>

(* ------------------------------------------------------- the environment *)
StoreDown ==
  /\ store_up
  /\ outages < MaxOutages
  /\ store_up' = FALSE
  /\ outages' = outages + 1
  /\ UNCHANGED <<store, now, content, starts, ext, call, run, hist>>

StoreRecover ==
  /\ ~store_up
  /\ store_up' = TRUE
  /\ UNCHANGED <<store, now, content, starts, outages, ext, call, run, hist>>

Tick ==
  /\ now < MaxTime
  /\ now' = now + 1
  /\ UNCHANGED <<store, store_up, content, starts, outages, ext, call, run, hist>>

(* -------------------------------------------------------- specifications *)
\* The scheduled job fires once and one manual refresh is requested, at any moments:
\* the two calls overlap in every possible way, or follow one another.
Next ==
  \/ \E j \in Jobs : result[j].status = "none" /\ fetch_all_enabled_feeds(j)
  \/ \E j \in Jobs : fetch_feed_content(j)
  \/ \E j \in Jobs : get_user_preferences(j)
  \/ \E j \in Jobs : find_one(j)
  \/ \E j \in Jobs : process_article(j)
  \/ \E j \in Jobs : insert_one(j)
  \/ \E j \in Jobs : update_one_success(j)
  \/ \E j \in Jobs : update_one_error(j)
  \/ delete_all_articles
  \/ StoreDown
  \/ StoreRecover

Spec == Init /\ [][Next]_vars

\* The scheduled job alone, firing again and again, while feeds are switched on and
\* off and time passes.
NextSolo ==
  \/ fetch_all_enabled_feeds("scheduled")
  \/ fetch_feed_content("scheduled")
  \/ get_user_preferences("scheduled")
  \/ find_one("scheduled")
  \/ process_article("scheduled")
  \/ insert_one("scheduled")
  \/ update_one_success("scheduled")
  \/ update_one_error("scheduled")
  \/ \E u \in FeedUrls, e \in BOOLEAN : update_feed(u, e)
  \/ StoreDown
  \/ StoreRecover
  \/ Tick

SpecSolo == Init /\ [][NextSolo]_vars

\* One call of fetch_all_enabled_feeds over entries the store has never seen, one of
\* them without a link, under every availability of the backend, while the user
\* changes the preferences.  The store answers throughout.
ContentsEnrich == {[u \in FeedUrls |-> IF u = "f1" THEN <<"u1", "u2">> ELSE <<"">>]}

PreferencesUpdates ==
  {[interests |-> Absent, min_relevance_score |-> <<6>>, prune_after_days |-> Absent],
   [interests |-> <<<<"AI">>>>, min_relevance_score |-> Absent, prune_after_days |-> Absent]}

InitEnrich ==
  /\ Idle
  /\ articles = {}
  /\ feeds = NewFeeds
  /\ nextId = 1
  /\ content \in ContentsEnrich
  /\ prefs \in {Absent, <<[DefaultPreferences EXCEPT !.min_relevance_score = 2]>>}
  /\ backend \in [summary_ok : BOOLEAN, topics_ok : BOOLEAN]

NextEnrich ==
  \/ result["scheduled"].status = "none" /\ fetch_all_enabled_feeds("scheduled")
  \/ fetch_feed_content("scheduled")
  \/ get_user_preferences("scheduled")
  \/ find_one("scheduled")
  \/ process_article("scheduled")
  \/ insert_one("scheduled")
  \/ update_one_success("scheduled")
  \/ \E u \in PreferencesUpdates : update_preferences(u)

SpecEnrich == InitEnrich /\ [][NextEnrich]_vars

\* The retention job over two articles of every age around the cutoff, starred or not,
\* while the user stars articles and changes the retention window, time passes and the
\* store may fail. A unit of time is a day here.
SweepTimes == {1 - DefaultPruneDays - 1, 1 - DefaultPruneDays, 0, 1}

PruneUpdates ==
  {[interests |-> Absent, min_relevance_score |-> Absent, prune_after_days |-> <<2>>]}

InitSweep ==
  /\ Idle
  /\ backend = [summary_ok |-> TRUE, topics_ok |-> TRUE]
  /\ prefs \in {Absent, <<[DefaultPreferences EXCEPT !.prune_after_days = 1]>>}
  /\ \E c1 \in SweepTimes, c2 \in SweepTimes, p1 \in {1 - DefaultPruneDays - 1, 1},
        s1 \in {Absent, <<TRUE>>, <<FALSE>>}, s2 \in {Absent, <<TRUE>>} :
       articles = {[WithId(article_doc("u1", FeedName("f1"), DefaultPreferences), 1)
                      EXCEPT !.created_at = c1, !.published_at = p1, !.is_starred = s1],
                   [WithId(article_doc("u2", FeedName("f1"), DefaultPreferences), 2)
                      EXCEPT !.created_at = c2, !.is_starred = s2]}
  /\ nextId = 3
  /\ feeds = {[f EXCEPT !.last_fetched_at = now] : f \in NewFeeds}
  /\ content \in ContentsEnrich

NextSweep ==
  \/ start_scheduler
  \/ cleanup_old_articles
  \/ delete_many
  \/ \E a \in articles : toggle_article_star(a.id, TRUE)
  \/ \E u \in PruneUpdates : update_preferences(u)
  \/ StoreDown
  \/ StoreRecover
  \/ Tick

SpecSweep == InitSweep /\ [][NextSweep]_vars

\* The scheduler is started and stopped at any moments; while it runs, its two jobs
\* fire, over one feed with one entry and one article past the retention window, and
\* the store may fail under either job.
InitSched ==
  /\ Idle
  /\ backend = [summary_ok |-> TRUE, topics_ok |-> TRUE]
  /\ prefs = Absent
  /\ articles = {[WithId(article_doc("u2", FeedName("f2"), DefaultPreferences), 1)
                    EXCEPT !.created_at = 1 - DefaultPruneDays - 1]}
  /\ nextId = 2
  /\ feeds = {[f EXCEPT !.enabled = (f.url = "f1")] : f \in NewFeeds}
  /\ content = [u \in FeedUrls |-> <<"u1">>]

NextSched ==
  \/ start_scheduler
  \/ shutdown_scheduler
  \/ scheduled_feed_fetch
  \/ fetch_feed_content("scheduled")
  \/ get_user_preferences("scheduled")
  \/ find_one("scheduled")
  \/ process_article("scheduled")
  \/ insert_one("scheduled")
  \/ update_one_success("scheduled")
  \/ update_one_error("scheduled")
  \/ cleanup_old_articles
  \/ delete_many
  \/ StoreDown
  \/ StoreRecover

SpecSched == InitSched /\ [][NextSched]_vars

\* The same run, and one recalculation of all the scores beside it.
NextTable ==
  \/ result["scheduled"].status = "none" /\ fetch_all_enabled_feeds("scheduled")
  \/ fetch_feed_content("scheduled")
  \/ get_user_preferences("scheduled")
  \/ find_one("scheduled")
  \/ process_article("scheduled")
  \/ insert_one("scheduled")
  \/ update_one_success("scheduled")
  \/ \E u \in PreferencesUpdates : update_preferences(u)
  \/ recalculate_all_scores
  \/ recalculate_cursor
  \/ recalculate_process
  \/ recalculate_update

SpecTable == InitEnrich /\ [][NextTable]_vars

\* One recalculation over two articles ingested earlier, while the user reads and stars
\* articles, changes the preferences or deletes the articles, and the store may fail.
InitRecompute ==
  /\ Idle
  /\ backend = [summary_ok |-> TRUE, topics_ok |-> TRUE]
  /\ prefs \in {<<DefaultPreferences>>, <<[DefaultPreferences EXCEPT !.interests = <<"AI">>]>>}
  /\ articles = {WithId(article_doc("u1", FeedName("f1"), DefaultPreferences), 1),
                 WithId(article_doc("u2", FeedName("f1"), DefaultPreferences), 2)}
  /\ nextId = 3
  /\ feeds = {[f EXCEPT !.last_fetched_at = now] : f \in NewFeeds}
  /\ content \in ContentsEnrich

NextRecompute ==
  \/ recalculate_all_scores
  \/ recalculate_cursor
  \/ recalculate_process
  \/ recalculate_update
  \/ \E a \in articles, b \in BOOLEAN : mark_article_read(a.id, b)
  \/ \E a \in articles, b \in BOOLEAN : toggle_article_star(a.id, b)
  \/ \E u \in PreferencesUpdates : update_preferences(u)
  \/ delete_all_articles
  \/ StoreDown
  \/ StoreRecover

SpecRecompute == InitRecompute /\ [][NextRecompute]_vars

\* Requests to PUT /api/preferences of every kind: one field or two, values inside
\* their range, at its ends, just outside it, and null
OneField(name, v) ==
  [interests |-> Absent,
   min_relevance_score |-> IF name = "min_relevance_score" THEN <<v>> ELSE Absent,
   prune_after_days |-> IF name = "prune_after_days" THEN <<v>> ELSE Absent]

PreferencesRequests ==
  {OneField("min_relevance_score", v) : v \in {-1, 0, 3, 10, 11, Null}}
    \cup {OneField("prune_after_days", v) : v \in {0, 1, 7, 365, 366, Null}}
    \cup {[interests |-> <<<<"AI">>>>, min_relevance_score |-> Absent,
           prune_after_days |-> Absent],
          [interests |-> Absent, min_relevance_score |-> <<11>>,
           prune_after_days |-> <<7>>]}

InitPrefs ==
  /\ Idle
  /\ backend = [summary_ok |-> TRUE, topics_ok |-> TRUE]
  /\ prefs \in {Absent, <<DefaultPreferences>>}
  /\ articles = {}
  /\ nextId = 1
  /\ feeds = NewFeeds
  /\ content \in ContentsEnrich

NextPrefs ==
  \/ \E u \in PreferencesRequests : put_preferences(u)
  \/ StoreDown
  \/ StoreRecover
  \/ Tick

SpecPrefs == InitPrefs /\ [][NextPrefs]_vars

\* One call of score_relevance or of summarize_article on an answer of the backend:
\* topic answers of up to MaxLines lines, with labels in either letter case, tags that
\* repeat, exceed three or are EXCLUDED, and qualities of every kind; synopsis answers
\* with or without a preamble, a colon early or late, and up to MaxBody sentences.
TopicLines ==
  {[label |-> l, value |-> v] :
     l \in {"Tags:", "tags:"},
     v \in {<<"EXCLUDED">>, <<>>, <<"python">>, <<"AI", "ai">>,
            <<"python", "Rust", "AI", "DevOps">>}}
  \cup {[label |-> l, value |-> <<v>>] :
          l \in {"Quality:", "QUALITY:"}, v \in {"high", "High", "low", "great"}}
  \cup {[label |-> "Note:", value |-> <<"AI">>]}

TopicAnswers == UNION {[1..n -> TopicLines] : n \in 0..MaxLines}

RECURSIVE Body(_)
Body(k) == IF k = 0 THEN <<>> ELSE <<"w", ".">> \o Body(k - 1)

SynopsisAnswers ==
  {head \o Body(k) :
     head \in {<<>>, <<"Here is a summary", ":">>, <<"Summary", ":">>,
               <<"Here is a summary", "forty characters", ":">>,
               <<"This article", "w">>, <<"Sure", ":">>,
               <<"Summary", ":", "Here is a summary", ":">>,
               <<"This article", "w", ".", "w", ":">>},
     k \in 0..MaxBody}

InitClassify ==
  /\ Quiet
  /\ backend = [summary_ok |-> TRUE, topics_ok |-> TRUE]
  /\ prefs = Absent
  /\ articles = {}
  /\ nextId = 1
  /\ feeds = NewFeeds
  /\ content \in ContentsEnrich
  /\ \/ \E a \in TopicAnswers, i \in {DefaultPreferences.interests, <<>>} :
          probe = [method |-> "score_relevance", answer |-> a, interests |-> i,
                   out |-> Absent]
     \/ \E a \in SynopsisAnswers :
          probe = [method |-> "summarize_article", answer |-> a, interests |-> <<>>,
                   out |-> Absent]

NextClassify ==
  \/ score_relevance_call
  \/ summarize_article_call

SpecClassify == InitClassify /\ [][NextClassify]_vars

\* Two clients create feeds, of the same url or not, one after the other or at the
\* same time, in a registry that is empty or holds one feed; the store may fail.
InitFeeds ==
  /\ Idle
  /\ backend = [summary_ok |-> TRUE, topics_ok |-> TRUE]
  /\ prefs = Absent
  /\ articles = {}
  /\ nextId = 3
  /\ feeds \in {{}, {f \in NewFeeds : f.url = "f1"}}
  /\ content \in ContentsEnrich

NextFeeds ==
  \/ \E c \in Clients, url \in FeedUrls, name \in {"A", "B"} : create_feed(c, url, name)
  \/ \E c \in Clients : create_feed_insert_one(c)
  \/ StoreDown
  \/ StoreRecover

SpecFeeds == InitFeeds /\ [][NextFeeds]_vars

\* Two feeds, each serving an entry of its own and named alike or not, are fetched
\* by one run of the scheduled job while a client deletes feeds.  The store answers
\* throughout.
InitCascade ==
  /\ Idle
  /\ backend = [summary_ok |-> TRUE, topics_ok |-> TRUE]
  /\ prefs = Absent
  /\ articles = {}
  /\ nextId = 3
  /\ \E name \in {"A", "B"} :
       feeds = {IF f.url = "f2" THEN [f EXCEPT !.name = name] ELSE f : f \in NewFeeds}
  /\ content = [u \in FeedUrls |-> IF u = "f1" THEN <<"u1">> ELSE <<"u2">>]

NextCascade ==
  \/ result["scheduled"].status = "none" /\ fetch_all_enabled_feeds("scheduled")
  \/ fetch_feed_content("scheduled")
  \/ get_user_preferences("scheduled")
  \/ find_one("scheduled")
  \/ process_article("scheduled")
  \/ insert_one("scheduled")
  \/ update_one_success("scheduled")
  \/ \E f \in feeds : delete_feed("c1", f.id)
  \/ delete_feed_delete_one("c1")
  \/ delete_feed_delete_many("c1")

SpecCascade == InitCascade /\ [][NextCascade]_vars

\* The life of an article: the feed that serves it is fetched again and again while
\* time passes, the user reads and stars it and changes the preferences, and all the
\* scores are recalculated.
InitLife ==
  /\ Idle
  /\ backend = [summary_ok |-> TRUE, topics_ok |-> TRUE]
  /\ prefs = <<DefaultPreferences>>
  /\ articles = {}
  /\ nextId = 1
  /\ feeds = {[f EXCEPT !.enabled = (f.url = "f1")] : f \in NewFeeds}
  /\ content = [u \in FeedUrls |-> <<"u1">>]

NextLife ==
  \/ fetch_all_enabled_feeds("scheduled")
  \/ fetch_feed_content("scheduled")
  \/ get_user_preferences("scheduled")
  \/ find_one("scheduled")
  \/ process_article("scheduled")
  \/ insert_one("scheduled")
  \/ update_one_success("scheduled")
  \/ \E a \in articles, b \in BOOLEAN : mark_article_read(a.id, b)
  \/ \E a \in articles, b \in BOOLEAN : toggle_article_star(a.id, b)
  \/ \E u \in PreferencesUpdates : update_preferences(u)
  \/ recalculate_all_scores
  \/ recalculate_cursor
  \/ recalculate_process
  \/ recalculate_update
  \/ Tick

SpecLife == InitLife /\ [][NextLife]_vars

(* ---------------------------------------------------------------- claims *)
Has(sq, i, ev) == \E k \in 1..Len(sq) : sq[k] = <<i, ev>>
InsertEvents == {"inserted", "dup", "insert_err"}
AfterCheck == {"process", "process_err"} \cup InsertEvents
AllIdle == \A j \in Jobs : pc[j] = "idle"

\* The step of job j that ends its fetch_feed run by returning to the caller (the
\* caller moves to the next feed, or returns itself).
Returns(j) == pc[j] \in {"fetch", "update", "handler"} /\ pos'[j] # pos[j]
              /\ result'[j].how # "caught"

\* C1: no two articles of the store share a url, however the runs of the scheduled
\* job and of a manual refresh interleave.
C1_UniqueUrl == \A a, b \in articles : a.url = b.url => a = b

\* C1 witness: a run lost the insert race (the unique index refused its insert).
C1_Witness == \E j \in Jobs : CountOf(log[j], "dup") > 0 /\ articles # {}

\* C2 (as claimed): once every run of the two overlapping calls has returned (none
\* raised, nothing was deleted), the counts the runs returned sum to the number of
\* distinct urls stored.
C2_CountsSumToStored ==
  (AllIdle /\ ~everDeleted /\ \A j \in Jobs : result[j].how # "caught")
    => sumRet["scheduled"] + sumRet["manual"] = Cardinality({a.url : a \in articles})

\* C3 (as claimed): a run over a feed for which an earlier run has completed, with
\* no deletion in between, inserts nothing and counts nothing.
C3_SecondRunAddsNothing ==
  \A j \in Jobs : prior[j] \in {"completed", "clean"}
                    => count[j] = 0 /\ CountOf(log[j], "inserted") = 0

\* C3 (amended): a run over a feed for which an earlier run has completed without
\* skipping any entry for a failure, with no deletion in between, inserts nothing and
\* counts nothing.
C3_SecondRunAfterCleanRun ==
  \A j \in Jobs : prior[j] = "clean"
                    => count[j] = 0 /\ CountOf(log[j], "inserted") = 0

\* C3 witness: such a second run has gone through all its entries, each one found.
C3_Witness ==
  \E j \in Jobs : /\ prior[j] = "clean"
                  /\ pc[j] = "update"
                  /\ CountOf(log[j], "found") = Len(Entries(j))
                  /\ Len(Entries(j)) > 0

\* C4: within a run, the backend call and the insert of an entry come only after the
\* pre-check of that entry found no article, and an entry the pre-check found gets
\* neither.
C4_PrecheckBeforeBackend ==
  \A j \in Jobs :
    /\ \A k \in 1..Len(log[j]) :
         log[j][k][2] \in AfterCheck
           => /\ \E m \in 1..(k - 1) : log[j][m] = <<log[j][k][1], "absent">>
              /\ ~Has(log[j], log[j][k][1], "found")
    /\ pc[j] \in {"process", "insert"} => Has(log[j], idx[j], "absent")

\* C4 witness: a run skipped an entry its pre-check found in the store.
C4_Witness == \E j \in Jobs : CountOf(log[j], "found") > 0

\* C5 (as claimed): a run that hit DuplicateKey made one insert attempt for that entry,
\* did not count it, went on, and never takes the feed-failure path.
C5_DuplicateKeySkip ==
  \A j \in Jobs :
    CountOf(log[j], "dup") > 0
      => /\ count[j] = CountOf(log[j], "inserted")
         /\ \A i \in 1..Len(Entries(j)) :
              Cardinality({k \in 1..Len(log[j]) :
                             log[j][k][1] = i /\ log[j][k][2] \in InsertEvents}) <= 1
         /\ pc[j] # "handler"

\* C5 (amended): as claimed, except that the run takes the feed-failure path when
\* (and only when) its final update of the feed registry raised.
C5_DuplicateKeySkipUnlessUpdateRaises ==
  \A j \in Jobs :
    CountOf(log[j], "dup") > 0
      => /\ count[j] = CountOf(log[j], "inserted")
         /\ \A i \in 1..Len(Entries(j)) :
              Cardinality({k \in 1..Len(log[j]) :
                             log[j][k][1] = i /\ log[j][k][2] \in InsertEvents}) <= 1
         /\ \A k \in 1..Len(log[j]) :
              log[j][k][2] = "dup"
                => IF k < Len(log[j])
                   THEN log[j][k + 1] \in {<<log[j][k][1] + 1, "found">>,
                                           <<log[j][k][1] + 1, "absent">>,
                                           <<log[j][k][1] + 1, "check_err">>,
                                           <<0, "update_err">>}
                   ELSE \/ pc[j] = "check" /\ idx[j] = log[j][k][1] + 1
                        \/ pc[j] = "update" /\ log[j][k][1] = Len(Entries(j))
         /\ pc[j] = "handler" => log[j][Len(log[j])] = <<0, "update_err">>

\* C5 witness: a run hit DuplicateKey on an entry and has reached the end of its loop.
C5_Witness ==
  \E j \in Jobs : CountOf(log[j], "dup") > 0 /\ pc[j] = "update"

\* C6 (as claimed): when the fetch fails, the run returns 0, inserts nothing, adds 1
\* to the feed's error counter and leaves its last-fetch timestamp alone.
C6_FetchFailureCounted ==
  [][\A j \in Jobs :
       (pc[j] = "fetch" /\ Returns(j))
         => /\ sumRet'[j] = sumRet[j]
            /\ articles' = articles
            /\ \A f \in feeds : f.url = Cur(j).url =>
                 \E g \in feeds' : /\ g.url = f.url
                                   /\ g.error_count = f.error_count + 1
                                   /\ g.last_fetched_at = f.last_fetched_at]_vars

\* C7 (as claimed): the step that follows the entry loop sets the feed's last-fetch
\* timestamp to now and its error counter to 0.
C7_LoopEndRecordsSuccess ==
  [][\A j \in Jobs :
       (pc[j] = "update" /\ pc'[j] # "update")
         => \A g \in feeds' : g.url = Cur(j).url =>
              g.last_fetched_at = now /\ g.error_count = 0]_vars

\* C7 (amended): the step that follows the entry loop sets the feed's last-fetch
\* timestamp to now and its error counter to 0 whatever the count, unless that update
\* raises, and then the run goes to the feed-failure handler with the feed unchanged.
C7_LoopEndRecordsSuccessUnlessRaises ==
  [][\A j \in Jobs :
       (pc[j] = "update" /\ pc'[j] # "update")
         => IF pc'[j] = "handler"
            THEN ~store_up /\ feeds' = feeds
            ELSE \A g \in feeds' : g.url = Cur(j).url =>
                   g.last_fetched_at = now /\ g.error_count = 0]_vars

\* C7 witness: a feed that serves entries is recorded as fetched although no article
\* was ever stored: every entry of the run failed.
C7_Witness ==
  \E f \in feeds : /\ f.last_fetched_at = now
                   /\ now > 1
                   /\ f.error_count = 0
                   /\ content[f.url] # <<>>
                   /\ articles = {}
                   /\ ~everDeleted

\* C8: a failure on one entry sends the run to the next entry: at the end of the loop
\* every entry has been visited, and the feed-failure handler is entered only from
\* the preference load or the final registry update, never from an entry.
C8_EntryFailureIsolated ==
  \A j \in Jobs :
    /\ pc[j] \in {"check", "process", "insert"}
         => \A i \in 1..(idx[j] - 1) : \E k \in 1..Len(log[j]) : log[j][k][1] = i
    /\ pc[j] = "update"
         => \A i \in 1..Len(Entries(j)) : \E k \in 1..Len(log[j]) : log[j][k][1] = i
    /\ pc[j] = "handler"
         => log[j][Len(log[j])] \in {<<0, "prefs_err">>, <<0, "update_err">>}

\* C8 witness: an entry failed and a later entry of the same run was processed.
C8_Witness ==
  \E j \in Jobs : \E k \in 1..Len(log[j]) :
    /\ log[j][k][2] \in {"check_err", "process_err", "insert_err"}
    /\ \E m \in (k + 1)..Len(log[j]) : log[j][m][1] > log[j][k][1]

\* C9 (as claimed): the count a run returns is the number of articles it inserted.
C9_ReturnsInserted ==
  [][\A j \in Jobs :
       Returns(j) => sumRet'[j] = sumRet[j] + CountOf(log[j], "inserted")]_vars

\* How often fetch_feed was called for url u by the call of the job.
Times(sq, u) == Cardinality({k \in 1..Len(sq) : sq[k] = u})

C11_StoreFailureSurfaced ==
  (result["manual"].status = "returned" /\ result["manual"].how = "caught")
    => ~refresh_articles(result["manual"]).success

\* The article the store holds under this url
Stored(url) == CHOOSE a \in articles : a.url = url

\* The entries the run of job j has inserted so far
InsertedBy(j) == {i \in 1..Len(Entries(j)) : Has(log[j], i, "inserted")}

\* C12 (as claimed): no article with an empty url is ever stored.
C12_NoItemWithoutLink == \A a \in articles : a.url # ""

\* The value of the "Quality:" line as the scorer takes it: medium unless low or high
QualityOf(r) == IF r.quality \in {"low", "medium", "high"} THEN r.quality ELSE "medium"

\* C13: the score is the table value of (excluded, tag count, quality): 0 when excluded,
\* else 1, 4, 6 or 8 for 0, 1, 2 or at least 3 tags, plus 0, 1 or 2 for low, medium or
\* high quality; and every article stored under an answering backend carries the
\* table value of its own tag list and of the backend's answer, to its title and
\* content at ingestion or to its title alone at a recalculation.
C13_ScoreTable ==
  /\ \A e \in BOOLEAN, n \in 0..(MaxTags + 1), q \in {"low", "medium", "high"} :
       score(e, n, q) =
         IF e THEN 0
         ELSE (CASE n = 0 -> 1 [] n = 1 -> 4 [] n = 2 -> 6 [] OTHER -> 8)
              + (CASE q = "low" -> 0 [] q = "medium" -> 1 [] OTHER -> 2)
  /\ backend.topics_ok =>
       \A a \in articles : \E text \in {ContentOf(a.url), ""} :
         LET r == TopicResponse(a.title, text)
         IN  a.relevance_score =
               IF r.excluded THEN 0
               ELSE (CASE Len(a.tags) = 0 -> 1 [] Len(a.tags) = 1 -> 4
                       [] Len(a.tags) = 2 -> 6 [] OTHER -> 8)
                    + (CASE QualityOf(r) = "low" -> 0 [] QualityOf(r) = "medium" -> 1
                         [] OTHER -> 2)

\* C13 witness: articles of two rows of the table are stored, one scored at ingestion
\* (no tag, low quality: 1) and one scored again by the recalculation (three tags at
\* a quality taken as medium: 9).
C13_Witness ==
  /\ backend.topics_ok
  /\ \E a \in articles : a.url = "u2" /\ Len(a.tags) = 0 /\ a.relevance_score = 1
  /\ \E a \in articles : a.url = "u1" /\ Len(a.tags) = 3 /\ a.relevance_score = 9
  /\ recalc.processed > 0

\* C14: when the backend answers neither call, every article is stored with the
\* offline sentinel, score 5 and no tag, and a run in which nothing else failed has
\* stored and counted every entry of the feed.
C14_BackendOfflineStillInserted ==
  (~backend.summary_ok /\ ~backend.topics_ok)
    => /\ \A a \in articles :
            /\ a.summary = <<"Summary unavailable - AI service temporarily offline">>
            /\ a.relevance_score = 5
            /\ a.tags = <<>>
       /\ \A j \in Jobs :
            (pc[j] = "update" /\ Failures(log[j]) = 0)
              => /\ count[j] = Len(Entries(j))
                 /\ \A i \in 1..Len(Entries(j)) : ArticlesByUrl(Entries(j)[i]) # {}

\* C14 witness: with the backend offline a run has stored and counted two articles.
C14_Witness ==
  /\ ~backend.summary_ok /\ ~backend.topics_ok
  /\ \E j \in Jobs : pc[j] = "update" /\ count[j] = 2 /\ Cardinality(articles) = 2

\* C15: every article a run inserts is hidden exactly when its score is below the
\* threshold of the preferences the run loaded; with threshold 5, an entry scored 5 and
\* an entry scored 1 are both stored, the first not hidden, the second hidden, and the
\* run counts 2.
C15_HiddenBelowThreshold ==
  \A j \in Jobs :
    /\ doc[j] # Absent
         => doc[j][1].is_hidden
              = (doc[j][1].relevance_score < preferences[j][1].min_relevance_score)
    /\ pc[j] # "idle"
         => \A i \in InsertedBy(j) :
              Stored(Entries(j)[i]).is_hidden
                = (Stored(Entries(j)[i]).relevance_score
                     < preferences[j][1].min_relevance_score)
    /\ (pc[j] = "update" /\ Cur(j).url = "f1" /\ Failures(log[j]) = 0
          /\ backend.topics_ok /\ preferences[j][1] = DefaultPreferences)
         => /\ count[j] = 2
            /\ Stored("u1").relevance_score = 5 /\ ~Stored("u1").is_hidden
            /\ Stored("u2").relevance_score = 1 /\ Stored("u2").is_hidden

\* C15 witness: the run with threshold 5 has stored the entry scored 5 and the entry
\* scored 1, and counts 2.
C15_Witness ==
  \E j \in Jobs :
    /\ pc[j] = "update" /\ count[j] = 2
    /\ preferences[j][1].min_relevance_score = 5
    /\ \E a \in articles : a.relevance_score = 5 /\ ~a.is_hidden
    /\ \E a \in articles : a.relevance_score = 1 /\ a.is_hidden

\* C16: a run holds no preferences until its fetch has succeeded, holds them from the
\* first entry on, and every article it inserts has the tags, the score and the hidden
\* flag that the preferences it holds give, whatever the stored preferences have
\* become.
C16_PreferencesOfTheRun ==
  \A j \in Jobs :
    /\ pc[j] \in {"fetch", "prefs"} => preferences[j] = Absent
    /\ pc[j] \in {"check", "process", "insert", "update"} => preferences[j] # Absent
    /\ pc[j] # "idle"
         => \A i \in InsertedBy(j) :
              LET a == Stored(Entries(j)[i])
                  p == preferences[j][1]
                  sr == score_relevance(a.title, ContentOf(a.url), p)
              IN  /\ a.tags = sr.tags
                  /\ a.relevance_score = sr.score
                  /\ a.is_hidden = (sr.score < p.min_relevance_score)

\* C16 witness: the preferences were changed during a run, and the run has since
\* inserted an article that the changed preferences would have tagged or hidden
\* differently.
C16_Witness ==
  \E j \in Jobs :
    /\ pc[j] \in {"check", "process", "insert", "update"}
    /\ LoadPreferences # preferences[j][1]
    /\ \E i \in InsertedBy(j) :
         LET a == Stored(Entries(j)[i])
             sr == score_relevance(a.title, ContentOf(a.url), LoadPreferences)
         IN  \/ a.tags # sr.tags
             \/ a.is_hidden # (sr.score < LoadPreferences.min_relevance_score)

\* C20: a step of the recalculation neither adds nor removes an article, leaves the
\* url, title, source, timestamps, read flag and starred flag of every article as they
\* are, and gives the article it rewrites the new synopsis, tags and score and
\* hidden = (new score < the threshold of the preferences the recalculation loaded
\* at its start, which it keeps to its end).
C20_RecomputeFrame ==
  [][recalc' # recalc
       => /\ {a.id : a \in articles'} = {a.id : a \in articles}
          /\ \A a \in articles : \E b \in articles' :
               /\ b.id = a.id /\ b.url = a.url /\ b.title = a.title
               /\ b.source = a.source /\ b.published_at = a.published_at
               /\ b.created_at = a.created_at
               /\ b.is_read = a.is_read /\ b.is_starred = a.is_starred
               /\ b # a => /\ a.id = recalc.batch[recalc.pos].id
                           /\ b.summary = recalc.result[1].summary
                           /\ b.tags = recalc.result[1].tags
                           /\ b.relevance_score = recalc.result[1].relevance_score
                           /\ b.is_hidden = (b.relevance_score
                                               < recalc.preferences[1].min_relevance_score)
          /\ (recalc.pc \in {"cursor", "process", "update"} /\ recalc'.pc # "idle")
               => recalc'.preferences = recalc.preferences]_vars

\* C20 witness: the recalculation has rewritten an article that the user read or
\* starred after the cursor had loaded it, and the user's flag is still there.
C20_Witness ==
  /\ recalc.pc = "process"
  /\ \E k \in 1..(recalc.pos - 1) : \E a \in articles :
       /\ a.id = recalc.batch[k].id
       /\ a.summary = <<"s0">>
       /\ \/ a.is_read /\ ~recalc.batch[k].is_read
          \/ a.is_starred = <<TRUE>> /\ recalc.batch[k].is_starred = Absent

\* C17: a firing of the retention job takes as window the stored prune_after_days (30
\* when none is stored), and its sweep removes exactly the articles that are not
\* starred and were created (not published) strictly before now - window: a starred
\* article and an article created at or after the cutoff are still stored after it.
C17_SweepDeletesExactly ==
  [][/\ (cleanup.pc = "idle" /\ cleanup'.pc = "delete_many")
        => cleanup'.prune_after_days = LoadPreferences.prune_after_days
     /\ (cleanup.pc = "delete_many" /\ cleanup'.pc = "idle"
           /\ cleanup'.errors = cleanup.errors)
        => /\ articles' \subseteq articles
           /\ \A a \in articles :
                a \notin articles' <=> /\ a.is_starred \in {Absent, <<FALSE>>}
                                       /\ a.created_at < now - cleanup.prune_after_days]_vars

\* C17 witness: a sweep has removed one article and kept the other, which is not
\* starred, was published before the cutoff and was created at the cutoff or later.
C17_Witness ==
  /\ cleanup.pc = "idle" /\ cleanup.last = "ok" /\ cleanup.fired = 1
  /\ Cardinality(articles) = 1
  /\ \E a \in articles :
       /\ a.is_starred # <<TRUE>>
       /\ a.published_at < now - cleanup.prune_after_days
       /\ a.created_at >= now - cleanup.prune_after_days

\* C18: no step of a firing, failed or not, changes the scheduler: it keeps running
\* and keeps both job definitions, so that the job that failed can fire again; and a
\* step of one job changes nothing of the other job.
C18_JobErrorsContained ==
  [][/\ (cleanup' # cleanup \/ pc' # pc \/ result' # result) => sched' = sched
     /\ cleanup' # cleanup => UNCHANGED <<call, pc, count, idx, log, preferences, doc, feeds>>
     /\ (pc' # pc \/ result' # result) => cleanup' = cleanup
     /\ (sched'.running /\ cleanup'.errors > 0 /\ cleanup'.pc = "idle"
           /\ cleanup'.fired < MaxStarts)
        => (ENABLED cleanup_old_articles)'
     /\ (sched'.running /\ result'["scheduled"].how = "caught" /\ pc'["scheduled"] = "idle"
           /\ starts' < MaxStarts)
        => (ENABLED scheduled_feed_fetch)']_vars

\* C18 witness: a firing of the retention job failed and a later one removed the old
\* article; a firing of the fetch job failed under the outage as well, and the
\* scheduler still runs with both jobs.
C18_Witness ==
  /\ sched.running /\ Scheduled(FetchJob) /\ Scheduled(CleanupJob)
  /\ cleanup.errors > 0 /\ cleanup.last = "ok" /\ cleanup.pc = "idle"
  /\ \A a \in articles : a.url # "u2"
  /\ result["scheduled"].how = "caught"

\* C19: whatever calls of start_scheduler and shutdown_scheduler were made, the job
\* store holds at most one definition of each job, and exactly one while the
\* scheduler runs; a start on a running scheduler keeps it running and logs the error
\* that scheduler.start() raised; a stop on a stopped scheduler changes nothing.
C19_StartStopIdempotent ==
  [][/\ \A id \in {FetchJob, CleanupJob} :
          /\ Cardinality(Definitions(id)') <= 1
          /\ sched'.running => Cardinality(Definitions(id)') = 1
     /\ \A i \in 1..Len(sched'.jobs) : sched'.jobs[i].id \in {FetchJob, CleanupJob}
     /\ (sched.running /\ sched'.running /\ sched' # sched)
        => sched'.logged = "Failed to start scheduler"
     /\ (~sched.running /\ ~sched'.running) => sched' = sched]_vars

\* C19 witness: start_scheduler was called on the running scheduler, which still
\* holds one definition of each job.
C19_Witness ==
  /\ sched.running
  /\ sched.logged = "Failed to start scheduler"
  /\ Len(sched.jobs) = 2

\* C21: no step of a repeated ingestion, of a read or star action, of a recalculation
\* or of a preferences update changes the url or the created_at of a stored article.
C21_IdentityAndCreationFixed ==
  [][\A a \in articles : \A b \in articles' :
       b.id = a.id => b.url = a.url /\ b.created_at = a.created_at]_vars

\* C21 witness: an article created at time 1 has since been read, starred and
\* recalculated, the preferences were changed, time has passed and a second run over
\* the same entry has returned.
C21_Witness ==
  /\ now > 1 /\ starts = MaxStarts /\ pc["scheduled"] = "idle"
  /\ recalc.processed = 1
  /\ prefs # <<DefaultPreferences>>
  /\ \E a \in articles :
       a.url = "u1" /\ a.created_at = 1 /\ a.is_read /\ a.is_starred = <<TRUE>>

\* C22: whatever preferences updates were made, the stored threshold is within 0..10
\* and the stored retention window within 1..365.
C22_StoredPreferencesInRange ==
  prefs # Absent => /\ prefs[1].min_relevance_score \in 0..10
                    /\ prefs[1].prune_after_days \in 1..365

\* C23: a create-feed request that finds its url registered is answered 400 and
\* leaves the feeds as they are; no two feeds ever share a url, however the requests
\* interleave; and a feed enters the registry enabled, with error counter 0 and no
\* last-fetch timestamp.
C23_CreateFeedUnique ==
  [][/\ \A f, g \in feeds' : f.url = g.url => f = g
     /\ \A c \in Clients :
          (/\ http[c].pc = "idle" /\ http'[c] # http[c] /\ store_up
           /\ \E f \in feeds : f.url = http'[c].feed[1].url)
          => http'[c].status = 400 /\ http'[c].pc = "idle" /\ feeds' = feeds
     /\ \A c \in Clients :
          (http'[c] # http[c] /\ http'[c].status \in {400, 500}) => feeds' = feeds
     /\ \A f \in feeds' \ feeds :
          f.enabled /\ f.error_count = 0 /\ f.last_fetched_at = None]_vars

\* C23 witness: two feeds are registered; one request was answered 'already exists',
\* and one lost the race for a url at the unique index while the store answered.
C23_Witness ==
  /\ Cardinality(feeds) = 2
  /\ outages = 0
  /\ http["c1"].status = 400 /\ http["c1"].pc = "idle"
  /\ http["c2"].status = 500 /\ http["c2"].pc = "idle"

\* The feed urls whose content holds the entry this article was made from
Origins(a) == {u \in FeedUrls : \E i \in 1..Len(content[u]) : content[u][i] = a.url}

\* C30: delete_feed removes only articles that were ingested from the feed it
\* deletes; and when no run and no request is under way, every stored article was
\* ingested from a feed that is still registered.
C30_CascadeExact ==
  [][/\ \A a \in articles \ articles' :
          /\ http["c1"].pc = "delete_many"
          /\ http["c1"].feed[1].url \in Origins(a)
     /\ (pc'["scheduled"] = "idle" /\ http'["c1"].pc = "idle")
        => \A a \in articles' : \E f \in feeds' : f.url \in Origins(a)]_vars

\* C24: every article a run stores is stored with is_read = False and
\* is_starred = False.
C24_CreatedUnreadUnstarred ==
  [][\A a \in articles' \ articles : a.is_read = FALSE /\ a.is_starred = <<FALSE>>]_vars

\* C25: the tag list score_relevance returns has at most 3 elements, each is an
\* interest of the list in the list's capitalization, and no interest occurs twice.
C25_TagsCappedCanonicalDistinct ==
  (probe.method = "score_relevance" /\ probe.out # Absent)
  => LET tags == probe.out[1].tags
     IN  /\ Len(tags) <= MaxTags
         /\ \A i \in 1..Len(tags) : \E k \in 1..Len(probe.interests) :
              tags[i] = probe.interests[k]
         /\ \A i, k \in 1..Len(tags) : tags[i] = tags[k] => i = k

\* C26: an answer with a tags line, in any letter case of its label and among any
\* other lines, whose value is EXCLUDED gives score 0 and no tag.
C26_ExcludedScoresZero ==
  (/\ probe.method = "score_relevance" /\ probe.out # Absent
   /\ \E i \in 1..Len(probe.answer) :
        Lower(probe.answer[i].label) = "tags:" /\ probe.answer[i].value = <<"EXCLUDED">>)
  => probe.out[1] = [score |-> 0, tags |-> <<>>]

\* The same answer with its labels written "Tags:" and "Quality:"
Relabelled(lines) ==
  [i \in 1..Len(lines) |->
     [lines[i] EXCEPT !.label = CASE Lower(@) = "tags:" -> "Tags:"
                                  [] Lower(@) = "quality:" -> "Quality:"
                                  [] OTHER -> @]]

\* The same answer with its lines in the opposite order
Reversed(lines) == [i \in 1..Len(lines) |-> lines[Len(lines) + 1 - i]]

\* C27: an answer gets the same (score, tags) as the answer that differs from it in
\* the letter case of its labels only, and, when it has one tags line and one quality
\* line, as the answer with the two lines in the other order.
C27_LabelsCaseAndOrder ==
  (probe.method = "score_relevance" /\ probe.out # Absent)
  => /\ probe.out[1] = parse_and_score(Relabelled(probe.answer), probe.interests)
     /\ (/\ Len(probe.answer) = 2
         /\ \E i \in 1..2 : Lower(probe.answer[i].label) = "tags:"
         /\ \E i \in 1..2 : Lower(probe.answer[i].label) = "quality:")
        => probe.out[1] = parse_and_score(Reversed(probe.answer), probe.interests)

\* C28: summarize_article returns at most 4 sentences; and when the answer starts
\* with a preamble of the list and has a colon within its first 50 characters, what
\* it returns are the first sentences of the text after the first colon (a second
\* preamble behind that colon stays).
C28_SynopsisPostProcessing ==
  (probe.method = "summarize_article" /\ probe.out # Absent)
  => /\ Len(probe.out[1]) <= 4
     /\ (StartsWithPreamble(probe.answer) /\ ColonInFirst50(probe.answer))
        => probe.out[1] = Take(SplitSentences(AfterColon(probe.answer), <<>>), 4)

\* C28 witness: an answer of more than 4 sentences behind a preamble and an early
\* colon has been cut to 4 sentences without the preamble.
C28_Witness ==
  /\ probe.method = "summarize_article" /\ probe.out # Absent
  /\ StartsWithPreamble(probe.answer) /\ ColonInFirst50(probe.answer)
  /\ Len(SplitSentences(probe.answer, <<>>)) > 4
  /\ probe.out[1] = <<<<"w">>, <<"w">>, <<"w">>, <<"w">>>>

\* C29: process_article always returns a synopsis, a score in 0..10 and a tag list;
\* when only the synopsis call fails, the score and the tags are those of the topic
\* answer (and the synopsis is the sentinel); when only the topic call fails, the
\* synopsis is the generated one and score and tags are (5, empty).
C29_CallsIndependent ==
  \A j \in Jobs :
    doc[j] # Absent
    => LET d == doc[j][1]
           text == ContentOf(d.url)
           topics == parse_and_score(ResponseLines(TopicResponse(d.title, text)),
                                     preferences[j][1].interests)
           synopsis == Take(SummaryResponse(d.title, text), MaxSentences)
       IN  /\ d.relevance_score \in 0..10
           /\ d.summary \in Seq(STRING) /\ d.tags \in Seq(STRING)
           /\ (~backend.summary_ok /\ backend.topics_ok)
                => /\ d.summary = OfflineSentinel
                   /\ d.relevance_score = topics.score /\ d.tags = topics.tags
           /\ (backend.summary_ok /\ ~backend.topics_ok)
                => /\ d.summary = synopsis
                   /\ d.relevance_score = NeutralScore /\ d.tags = <<>>
           /\ (backend.summary_ok /\ backend.topics_ok)
                => /\ d.summary = synopsis
                   /\ d.relevance_score = topics.score /\ d.tags = topics.tags

\* C29 witness: with only the synopsis call failing, an article got its tag and its
\* score from the topic answer, and the sentinel for a synopsis.
C29_Witness ==
  \E j \in Jobs :
    /\ doc[j] # Absent
    /\ ~backend.summary_ok /\ backend.topics_ok
    /\ doc[j][1].summary = OfflineSentinel
    /\ doc[j][1].tags = <<"Python">> /\ doc[j][1].relevance_score = 5

====
